---- MODULE Spec2Model ----
(***************************************************************************)
(* Richardson-Lucy deconvolution of flowdec (python/flowdec/restoration.py) *)
(* as a state machine: one RichardsonLucyDeconvolver instance, its          *)
(* initialize / run life cycle, and the evaluation of the graph that        *)
(* _build_tf_graph builds (assertions, padding, while loop, crop, output    *)
(* hook).                                                                   *)
(*                                                                          *)
(* Tensors are functions from index tuples (0-based, one entry per axis) to *)
(* values.  float32 values are fixed-point integers with FracBits           *)
(* fractional bits; NaN stands for every non-finite float32 value.          *)
(* The int32 loop counter is kept with IntBits bits, two's complement.      *)
(***************************************************************************)
EXTENDS Integers, Sequences, FiniteSets, TLC

VARIABLES
    pad_mode,         \* self.pad_mode, fed to the 'padding_mode' placeholder
    output_prep_fn,   \* self.output_prep_fn: "none" or the kind of callable
    real_domain_fft,  \* self.real_domain_fft
    via_rl,           \* TRUE: the instance lives inside richardson_lucy(...)
    acq,              \* the acquisition: [dshape, kshape, data, kernel]
    niter,            \* the niter argument of run
    hasGraph,         \* hasattr(self, 'graph')
    initCalled,       \* initialize was called on the instance (history)
    raised,           \* exception raised by the last call on the instance
    hookCall,         \* arguments of the last call of output_prep_fn
    phase,            \* phase of the current run
    hist,             \* phases the current run went through (history)
    sessionOpen,      \* a tf.Session is open for the current run
    err,              \* message of the failed op of the current run
    kernh,            \* kernel after _wrap_input
    tshape,           \* tf.shape(datat): the working shape
    datat,            \* data padded to the working shape
    kernt,            \* kernel padded to the working shape and shifted
    i,                \* loop counter of tf.while_loop
    iters,            \* number of executions of body (history)
    decon,            \* the estimate
    conv1,            \* conv1 of the last execution of body
    blur1,            \* blur1 (the ratio) of the last execution of body
    cropped,          \* the estimate after unpad_around_center
    result            \* outputs['result']

cfgvars == <<pad_mode, output_prep_fn, real_domain_fft, via_rl, acq, niter>>
lifevars == <<hasGraph, initCalled, raised, hookCall>>
runvars == <<phase, hist, sessionOpen, err, kernh, tshape, datat, kernt,
             i, iters, decon, conv1, blur1, cropped, result>>
vars == <<cfgvars, lifevars, runvars>>

----------------------------------------------------------------------------
(* Bounds of the model *)

MaxDim == 3       \* largest axis extent of data and kernel
IntBits == 3      \* width kept for the int32 counter and niter
FracBits == 3     \* fractional bits kept for float32 values

(* Program constants *)

n_dims == 2                 \* rank of the tensors (constructor argument)
EpsDen == 1000000           \* epsilon = 1 / EpsDen = 1e-6

OPM_LOG2 == "log2"
OPM_NONE == "none"

Axes == 1..n_dims
Scale == 2 ^ FracBits
Half == Scale \div 2
IntMin == -(2 ^ (IntBits - 1))
IntMax == 2 ^ (IntBits - 1) - 1
NaN == -(2 ^ 30)
NoTensor == [p \in {} |-> 0]
NoShape == [a \in Axes |-> 0]

----------------------------------------------------------------------------
(* Integer and float32 arithmetic *)

\* int32 addition wraps around
WrapAdd(x, y) == ((x + y - IntMin) % (2 ^ IntBits)) + IntMin

Quot(a, b) == IF b < 0 THEN (-a) \div (-b) ELSE a \div b

IsNaN(x) == x = NaN

FMul(a, b) == IF IsNaN(a) \/ IsNaN(b) THEN NaN ELSE (a * b) \div Scale

\* float32 division: x / 0 is not an exception, it is non-finite
FDiv(a, b) == IF IsNaN(a) \/ IsNaN(b) \/ b = 0 THEN NaN ELSE Quot(a * Scale, b)

\* conv1 < self.epsilon, false when conv1 is NaN
LtEpsilon(x) == ~IsNaN(x) /\ x * EpsDen < Scale

RECURSIVE SumFn(_, _)
SumFn(f, S) ==
    IF S = {} THEN 0
    ELSE LET p == CHOOSE q \in S : TRUE
         IN  f[p] + SumFn(f, S \ {p})

RECURSIVE SumSeq(_, _)
SumSeq(s, n) == IF n = 0 THEN 0 ELSE s[n] + SumSeq(s, n - 1)

RECURSIVE Pow2Ceil(_, _)
Pow2Ceil(n, p) == IF p >= n THEN p ELSE Pow2Ceil(n, 2 * p)

----------------------------------------------------------------------------
(* Shapes and tensors *)

MaxExt == Pow2Ceil(MaxDim, 1)

Indices(shape) ==
    {p \in [Axes -> 0..(MaxExt - 1)] : \A a \in Axes : p[a] < shape[a]}

HasNaN(t) == \E p \in DOMAIN t : IsNaN(t[p])

\* tf.reduce_sum of a float tensor
reduce_sum(t) == IF HasNaN(t) THEN NaN ELSE SumFn(t, DOMAIN t)

\* optimize_dims(shape, OPM_LOG2): next power of two per axis
optimize_dims(shape) == [a \in Axes |-> Pow2Ceil(shape[a], 1)]

\* precondition of pad_around_center
CanPad(shape, target) == \A a \in Axes : shape[a] <= target[a]

\* leading pad of each axis; an odd total puts the extra unit in front
PadLo(shape, target) == [a \in Axes |-> (target[a] - shape[a] + 1) \div 2]

pad_around_center(t, shape, target) ==
    LET lo == PadLo(shape, target)
    IN  [p \in Indices(target) |->
            IF \A a \in Axes : lo[a] <= p[a] /\ p[a] < lo[a] + shape[a]
            THEN t[[a \in Axes |-> p[a] - lo[a]]]
            ELSE 0]

unpad_around_center(t, tsh, shape) ==
    LET lo == PadLo(shape, tsh)
    IN  [p \in Indices(shape) |-> t[[a \in Axes |-> p[a] + lo[a]]]]

ifftshift(t, shape) ==
    [p \in Indices(shape) |->
        t[[a \in Axes |-> (p[a] + shape[a] \div 2) % shape[a]]]]

\* tf.reverse(kernt, axis=all axes)
reverse(t, shape) ==
    [p \in Indices(shape) |-> t[[a \in Axes |-> shape[a] - 1 - p[a]]]]

\* real(ifft(fft(x) * fft(k))): circular convolution of x with k
CircConv(x, k, shape) ==
    IF HasNaN(x) \/ HasNaN(k) THEN [p \in Indices(shape) |-> NaN]
    ELSE [p \in Indices(shape) |->
            SumFn([q \in Indices(shape) |->
                      x[q] * k[[a \in Axes |-> (p[a] - q[a]) % shape[a]]]],
                  Indices(shape)) \div Scale]

\* real(ifft(fft(x) * conj(fft(k)))): circular correlation of x with k
CircCorr(x, k, shape) ==
    IF HasNaN(x) \/ HasNaN(k) THEN [p \in Indices(shape) |-> NaN]
    ELSE [p \in Indices(shape) |->
            SumFn([q \in Indices(shape) |->
                      x[q] * k[[a \in Axes |-> (q[a] - p[a]) % shape[a]]]],
                  Indices(shape)) \div Scale]

----------------------------------------------------------------------------
(* Operators of restoration.py *)

PadModes == {OPM_LOG2, OPM_NONE, "other"}
HookKinds == {"none", "documented", "named"}

\* default_input_prep_fn: the kernel placeholder is divided by its sum
default_input_prep_fn(tensor_name, t) ==
    IF tensor_name = "kernel:0"
    THEN LET s == reduce_sum(t) IN [p \in DOMAIN t |-> FDiv(t[p], s)]
    ELSE t

_wrap_input(tensor_name, t) == default_input_prep_fn(tensor_name, t)

\* the assertion written with assert_greater_equal
assert_pad_mode_ge(padmh) ==
    (IF padmh = OPM_LOG2 THEN 1 ELSE 0) + (IF padmh = OPM_NONE THEN 1 ELSE 0) >= 0

\* assert_pad_mode: reduce_sum(cast(flag_pad_mode, int32)) > 0
assert_pad_mode(padmh) ==
    (IF padmh = OPM_LOG2 THEN 1 ELSE 0) + (IF padmh = OPM_NONE THEN 1 ELSE 0) > 0

\* assert_shapes: reduce_sum(tf.shape(datah) - tf.shape(kernh)) >= 0
assert_shapes(dshape, kshape) ==
    SumSeq([a \in Axes |-> dshape[a] - kshape[a]], n_dims) >= 0

\* messages of the assertions that fail on the fed values
FailedAsserts(padmh, dshape, kshape) ==
    (IF assert_pad_mode(padmh) THEN {} ELSE {"Pad mode not valid"})
    \cup (IF assert_shapes(dshape, kshape) THEN {}
          ELSE {"Data shape must be >= kernel shape"})

\* tf.shape(datat): tf.cond(tf.equal(padmh, OPM_LOG2), pad to optimize_dims, datah)
work_shape(padmh, dshape) ==
    IF padmh = OPM_LOG2 THEN optimize_dims(dshape) ELSE dshape

\* cond of the while loop
cond(c, n) == c <= n

\* the ratio without the guard
where_ratio_unguarded(c1, d) == FDiv(d, c1)

\* blur1 = tf.where(conv1 < epsilon, zeros, datat / conv1), one element
where_ratio(c1, d) == IF LtEpsilon(c1) THEN 0 ELSE FDiv(d, c1)

\* conv(blur1, kern_fft_conj)
conv_conj(x, k, shape, rdf) ==
    IF rdf THEN CircConv(x, reverse(k, shape), shape) ELSE CircCorr(x, k, shape)

\* tf.maximum(x, 0.), one element; onNaN is what the kernel in use yields
\* for a NaN operand (NaN or the other operand)
maximum0(x, onNaN) == IF IsNaN(x) THEN onNaN ELSE IF x > 0 THEN x ELSE 0

\* the crop taken to tf.shape(datat)
crop_shape_padded(dshape, tsh) == tsh

\* shape the estimate is cropped to: tf.shape(datah)
crop_shape(dshape, tsh) == dshape

\* positional arguments _wrap_output passes to output_prep_fn
wrap_output_args == <<"tensor.name", "tensor">>

\* number of positional parameters a hook of each kind takes
HookArity(kind) == IF kind = "named" THEN 2 ELSE 1

\* the ops a hook adds to the graph: clipping of the result to [0, 1]
HookOp(t) == [p \in DOMAIN t |->
                 IF IsNaN(t[p]) THEN NaN
                 ELSE IF t[p] > Scale THEN Scale
                 ELSE IF t[p] < 0 THEN 0 ELSE t[p]]

_wrap_output(kind, t) == IF kind = "none" THEN t ELSE HookOp(t)

\* _run without the check of the graph attribute
graph_present_unchecked(hg) == TRUE

\* _run: hasattr(self, 'graph')
graph_present(hg) == hg

\* richardson_lucy: algo.initialize().run(...)
rl_run_allowed(ic, exc) == ic /\ exc = "none"

----------------------------------------------------------------------------
(* Inputs *)

Shapes == [Axes -> 1..MaxDim]
RowShapes == {s \in Shapes : s[1] = 1}
Unit == [a \in Axes |-> 1]

\* data: d[1] at the origin, d[2] elsewhere
MkData(shape, d) ==
    [p \in Indices(shape) |->
        Scale * (IF \A a \in Axes : p[a] = 0 THEN d[1] ELSE d[2])]

\* kernel: k[1] at the centre, k[2] elsewhere
MkKernel(shape, k) ==
    [p \in Indices(shape) |->
        Scale * (IF \A a \in Axes : p[a] = shape[a] \div 2 THEN k[1] ELSE k[2])]

DataCases == {<<1, 1>>, <<0, 0>>, <<2, 0>>}
KernelCases == {<<1, 0>>, <<1, 1>>, <<0, 0>>, <<2, -1>>}

Case(pm, hook, rdf, rl, ds, ks, d, k, n) ==
    [pm |-> pm, hook |-> hook, rdf |-> rdf, rl |-> rl,
     ds |-> ds, ks |-> ks, d |-> d, k |-> k, n |-> n]

\* every configuration and entry point, on one small acquisition
LifeCases ==
    {Case(pm, hook, rdf, rl, Unit, Unit, <<1, 1>>, <<1, 0>>, 1) :
        pm \in PadModes, hook \in HookKinds, rdf \in BOOLEAN, rl \in BOOLEAN}

\* every pair of shapes under every padding mode
ShapeCases ==
    {Case(pm, "none", FALSE, FALSE, ds, ks, <<1, 1>>, <<1, 0>>, n) :
        pm \in PadModes, ds \in Shapes, ks \in Shapes, n \in {0, 1}}

\* every value pattern and every niter on one-row tensors
ValueCases ==
    {Case(pm, "none", rdf, FALSE, ds, ks, d, k, n) :
        pm \in {OPM_LOG2, OPM_NONE}, rdf \in BOOLEAN,
        ds \in RowShapes, ks \in RowShapes,
        d \in DataCases, k \in KernelCases, n \in IntMin..IntMax}

Cases == LifeCases \cup ShapeCases \cup {c \in ValueCases : CanPad(c.ks, c.ds)}

----------------------------------------------------------------------------
(* State machine *)

Idle ==
    /\ hist = << >>
    /\ sessionOpen = FALSE
    /\ err = "none"
    /\ kernh = NoTensor
    /\ tshape = NoShape
    /\ datat = NoTensor
    /\ kernt = NoTensor
    /\ i = 0
    /\ iters = 0
    /\ decon = NoTensor
    /\ conv1 = NoTensor
    /\ blur1 = NoTensor
    /\ cropped = NoTensor
    /\ result = NoTensor

Init ==
    /\ \E c \in Cases :
        /\ pad_mode = c.pm
        /\ output_prep_fn = c.hook
        /\ real_domain_fft = c.rdf
        /\ via_rl = c.rl
        /\ acq = [dshape |-> c.ds, kshape |-> c.ks,
                  data |-> MkData(c.ds, c.d), kernel |-> MkKernel(c.ks, c.k)]
        /\ niter = c.n
    /\ hasGraph = FALSE
    /\ initCalled = FALSE
    /\ raised = "none"
    /\ hookCall = << >>
    /\ phase = "Idle"
    /\ Idle

\* Deconvolver.initialize: _build_tf_graph runs, and with it _wrap_output
Initialize ==
    /\ phase = "Idle"
    /\ via_rl => ~initCalled
    /\ initCalled' = TRUE
    /\ IF output_prep_fn = "none"
       THEN /\ hasGraph' = TRUE
            /\ raised' = "none"
            /\ UNCHANGED <<hookCall, phase>>
       ELSE /\ hookCall' = wrap_output_args
            /\ IF Len(wrap_output_args) = HookArity(output_prep_fn)
               THEN /\ hasGraph' = TRUE
                    /\ raised' = "none"
                    /\ UNCHANGED phase
               ELSE /\ raised' = "TypeError"
                    /\ phase' = IF via_rl THEN "Returned" ELSE phase
                    /\ UNCHANGED hasGraph
    /\ UNCHANGED <<cfgvars, hist, sessionOpen, err, kernh, tshape, datat, kernt,
                   i, iters, decon, conv1, blur1, cropped, result>>

\* RichardsonLucyDeconvolver.run -> Deconvolver._run, up to the opening of
\* the session and the feeding of the placeholders
StartRun ==
    /\ phase = "Idle"
    /\ via_rl => rl_run_allowed(initCalled, raised)
    /\ IF graph_present(hasGraph)
       THEN /\ sessionOpen' = TRUE
            /\ raised' = "none"
            /\ phase' = "Validating"
            /\ hist' = <<"Validating">>
            /\ kernh' = _wrap_input("kernel:0", acq.kernel)
       ELSE /\ raised' = "ValueError"
            /\ phase' = IF via_rl THEN "Returned" ELSE phase
            /\ UNCHANGED <<sessionOpen, hist, kernh>>
    /\ UNCHANGED <<cfgvars, hasGraph, initCalled, hookCall, err, tshape, datat,
                   kernt, i, iters, decon, conv1, blur1, cropped, result>>

\* assert_pad_mode and assert_shapes; neither is ordered before the other
Validate ==
    /\ phase = "Validating"
    /\ LET failed == FailedAsserts(pad_mode, acq.dshape, acq.kshape)
       IN  IF failed = {}
           THEN /\ phase' = "Preparing"
                /\ hist' = Append(hist, "Preparing")
                /\ UNCHANGED err
           ELSE /\ \E m \in failed : err' = m
                /\ phase' = "Error"
                /\ hist' = Append(hist, "Error")
    /\ UNCHANGED <<cfgvars, lifevars, sessionOpen, kernh, tshape, datat, kernt,
                   i, iters, decon, conv1, blur1, cropped, result>>

\* datat, kernt and the initial estimate
Prepare ==
    /\ phase = "Preparing"
    /\ LET tsh == work_shape(pad_mode, acq.dshape)
       IN  IF CanPad(acq.kshape, tsh)
           THEN /\ tshape' = tsh
                /\ datat' = pad_around_center(
                                _wrap_input("data:0", acq.data), acq.dshape, tsh)
                /\ kernt' = ifftshift(
                                pad_around_center(kernh, acq.kshape, tsh), tsh)
                /\ decon' = [p \in Indices(tsh) |-> Half]
                /\ i' = 1
                /\ phase' = "Iterating"
                /\ hist' = Append(hist, "Iterating")
                /\ UNCHANGED err
           ELSE /\ err' = "Paddings must be non-negative"
                /\ phase' = "Error"
                /\ hist' = Append(hist, "Error")
                /\ UNCHANGED <<tshape, datat, kernt, decon, i>>
    /\ UNCHANGED <<cfgvars, lifevars, sessionOpen, kernh, iters, conv1, blur1,
                   cropped, result>>

\* one execution of body; executions past IntMax + 2 are not explored, which
\* keeps the history counter iters finite when the loop never exits
Iterate ==
    /\ phase = "Iterating"
    /\ cond(i, niter)
    /\ iters <= IntMax + 1
    /\ LET c1 == CircConv(decon, kernt, tshape)
           b1 == [p \in Indices(tshape) |-> where_ratio(c1[p], datat[p])]
           c2 == conv_conj(b1, kernt, tshape, real_domain_fft)
       IN  /\ conv1' = c1
           /\ blur1' = b1
           /\ \E onNaN \in {NaN, 0} :
                 decon' = [p \in Indices(tshape) |->
                              maximum0(FMul(decon[p], c2[p]), onNaN)]
    /\ i' = WrapAdd(i, 1)
    /\ iters' = iters + 1
    /\ UNCHANGED <<cfgvars, lifevars, phase, hist, sessionOpen, err, kernh,
                   tshape, datat, kernt, cropped, result>>

\* cond is false: the loop is left
ExitLoop ==
    /\ phase = "Iterating"
    /\ ~cond(i, niter)
    /\ phase' = "Finalizing"
    /\ hist' = Append(hist, "Finalizing")
    /\ UNCHANGED <<cfgvars, lifevars, sessionOpen, err, kernh, tshape, datat,
                   kernt, i, iters, decon, conv1, blur1, cropped, result>>

\* unpad_around_center, the ops of the output hook, tf.identity
Finalize ==
    /\ phase = "Finalizing"
    /\ LET c == unpad_around_center(decon, tshape, crop_shape(acq.dshape, tshape))
       IN  /\ cropped' = c
           /\ result' = _wrap_output(output_prep_fn, c)
    /\ phase' = "Done"
    /\ hist' = Append(hist, "Done")
    /\ UNCHANGED <<cfgvars, lifevars, sessionOpen, err, kernh, tshape, datat,
                   kernt, i, iters, decon, conv1, blur1>>

\* sess.run returns or raises; the session is closed
Return ==
    /\ phase \in {"Done", "Error"}
    /\ raised' = IF phase = "Error" THEN "InvalidArgumentError" ELSE "none"
    /\ phase' = IF via_rl THEN "Returned" ELSE "Idle"
    /\ hist' = << >>
    /\ sessionOpen' = FALSE
    /\ err' = "none"
    /\ kernh' = NoTensor
    /\ tshape' = NoShape
    /\ datat' = NoTensor
    /\ kernt' = NoTensor
    /\ i' = 0
    /\ iters' = 0
    /\ decon' = NoTensor
    /\ conv1' = NoTensor
    /\ blur1' = NoTensor
    /\ cropped' = NoTensor
    /\ result' = NoTensor
    /\ UNCHANGED <<cfgvars, hasGraph, initCalled, hookCall>>

Next ==
    \/ Initialize
    \/ StartRun
    \/ Validate
    \/ Prepare
    \/ Iterate
    \/ ExitLoop
    \/ Finalize
    \/ Return

Spec == Init /\ [][Next]_vars

----------------------------------------------------------------------------
(* Properties *)

Computing == {"Preparing", "Iterating", "Finalizing", "Done"}
Started == {"Validating"} \cup Computing
ValidPadMode == pad_mode \in {OPM_LOG2, OPM_NONE}
KernelExceeds == \E a \in Axes : acq.kshape[a] > acq.dshape[a]
Finite(x) == x > NaN
Max0(n) == IF n > 0 THEN n ELSE 0

\* C1: a run whose kernel exceeds data on some axis is rejected by the shape
\* validation: it never gets past Validating and produces no result.
C1_KernelAxisRejected ==
    KernelExceeds =>
        /\ phase \notin Computing
        /\ result = NoTensor
        /\ (phase = "Error" /\ ValidPadMode
               => err = "Data shape must be >= kernel shape")

\* C2 as stated: a pad mode other than LOG2 and NONE fails the run with the
\* message 'Pad mode not valid', before anything is padded or iterated; LOG2
\* and NONE never fail the pad-mode check.
C2_PadModeMessage ==
    /\ ~ValidPadMode =>
          /\ phase \notin Computing
          /\ Len(hist) >= 2 => hist[2] = "Error"
          /\ phase = "Error" => err = "Pad mode not valid"
          /\ datat = NoTensor /\ kernt = NoTensor /\ iters = 0
    /\ ValidPadMode => err # "Pad mode not valid"

\* C2 amended: a pad mode other than LOG2 and NONE fails the run in
\* Validating, before anything is padded or iterated, with the message
\* 'Pad mode not valid' or, when the shape assertion fails on the same run,
\* with either assertion's message; LOG2 and NONE never fail the pad-mode
\* check.
C2_PadModeRejected ==
    /\ ~ValidPadMode =>
          /\ phase \notin Computing
          /\ Len(hist) >= 2 => hist[2] = "Error"
          /\ phase = "Error" =>
                \/ err = "Pad mode not valid"
                \/ /\ err = "Data shape must be >= kernel shape"
                   /\ SumSeq([a \in Axes |-> acq.dshape[a] - acq.kshape[a]],
                             n_dims) < 0
          /\ datat = NoTensor /\ kernt = NoTensor /\ iters = 0
    /\ ValidPadMode => err # "Pad mode not valid"

C2_Witness ==
    /\ pad_mode = "other"
    /\ phase = "Error"
    /\ err = "Pad mode not valid"
    /\ hist = <<"Validating", "Error">>

\* C3: for niter >= 0 the body is executed exactly niter times, and with
\* niter = 0 the result is 0.5 at every element of data's shape.
C3_ExactlyNiter ==
    niter >= 0 =>
        /\ iters <= niter
        /\ phase \in {"Finalizing", "Done"} => iters = niter
        /\ (phase = "Done" /\ niter = 0 /\ output_prep_fn = "none")
              => result = [p \in Indices(acq.dshape) |-> Half]

\* C4: the working shape is >= data's shape on every axis, data and kernel
\* are both padded to it, and the result of a run that succeeds has exactly
\* data's shape.
C4_ResultHasDataShape ==
    /\ phase \in {"Iterating", "Finalizing", "Done"} =>
          /\ \A a \in Axes : tshape[a] >= acq.dshape[a]
          /\ DOMAIN datat = Indices(tshape)
          /\ DOMAIN kernt = DOMAIN datat
          /\ DOMAIN decon = DOMAIN datat
    /\ phase = "Done" =>
          /\ DOMAIN cropped = Indices(acq.dshape)
          /\ DOMAIN result = DOMAIN acq.data

C4_Witness ==
    /\ phase = "Done"
    /\ pad_mode = OPM_LOG2
    /\ \E a \in Axes : tshape[a] > acq.dshape[a]
    /\ iters > 0

\* C5: every element of the estimate is >= 0 in every state of the loop.
C5_NonNegative ==
    phase \in {"Iterating", "Finalizing", "Done"} =>
        \A p \in DOMAIN decon : Finite(decon[p]) /\ decon[p] >= 0

\* C6: output_prep_fn is called with the cropped tensor as its only
\* positional argument; without an output_prep_fn the result is the cropped
\* estimate.
C6_HookSignature ==
    /\ hookCall # << >> => hookCall = <<"tensor">>
    /\ (phase = "Done" /\ output_prep_fn = "none") => result = cropped

\* C7: at every element the ratio is 0 where conv1 < epsilon and
\* datat / conv1 where conv1 >= epsilon, so no nonzero ratio comes from a
\* divisor below epsilon.
C7_EpsilonGuard ==
    iters > 0 =>
        \A p \in Indices(tshape) :
            Finite(conv1[p]) =>
                /\ conv1[p] * EpsDen < Scale => blur1[p] = 0
                /\ conv1[p] * EpsDen >= Scale
                      => blur1[p] = Quot(datat[p] * Scale, conv1[p])
                /\ blur1[p] # 0 => conv1[p] * EpsDen >= Scale

C7_Witness ==
    /\ iters > 1
    /\ \E p \in Indices(tshape) :
          /\ Finite(conv1[p]) /\ conv1[p] * EpsDen < Scale /\ blur1[p] = 0
    /\ \E p \in Indices(tshape) :
          /\ Finite(conv1[p]) /\ conv1[p] * EpsDen >= Scale /\ blur1[p] > 0

\* C8: a run goes through Validating, Preparing, Iterating, Finalizing, Done
\* in this order, Error is entered from Validating only, and a run in Error
\* has no result.
C8_PhaseOrder ==
    /\ \/ hist = <<"Validating", "Error">>
       \/ \E n \in 0..5 :
             hist = SubSeq(<<"Validating", "Preparing", "Iterating",
                             "Finalizing", "Done">>, 1, n)
    /\ phase = "Error" => result = NoTensor /\ cropped = NoTensor

\* C9: the computation runs only on an instance that initialize was called
\* on; a run on an instance without a graph raises before a session is
\* opened, returns nothing and leaves the instance without a graph; inside
\* richardson_lucy no such run happens.
C9_InitializeBeforeRun ==
    /\ (phase \in Started \/ phase = "Error" \/ sessionOpen)
          => initCalled /\ hasGraph
    /\ raised = "ValueError" =>
          /\ ~hasGraph
          /\ ~sessionOpen
          /\ phase \notin Started
          /\ result = NoTensor
    /\ via_rl => raised # "ValueError"

C9_Witness ==
    /\ ~via_rl
    /\ raised = "ValueError"
    /\ ~hasGraph
    /\ phase = "Idle"

\* C10: for every niter the counter runs from 1 upwards without wrapping
\* and the loop is left after max(niter, 0) executions of the body.
C10_LoopTerminates ==
    phase = "Iterating" =>
        /\ i = iters + 1
        /\ iters <= Max0(niter)

====
